---- MODULE Spec2Model ----
(***************************************************************************)
(* Plugin manager of sublinkPro-plugins: the registry (Manager.plugins),    *)
(* the plugin instances behind the Plugin interface, the storage behind    *)
(* the PluginStorage interface and the handler goroutines TriggerEvent     *)
(* starts.  Every exported method of Manager holds m.mutex for its whole   *)
(* body, so each method is one action.  A method is an operator from the   *)
(* state it starts in (and what the environment decides during it) to the  *)
(* state it leaves, the error it returns and the calls it made.            *)
(***************************************************************************)
EXTENDS Integers, Sequences, FiniteSets, Bags, TLC

\* ---------------------------------------------------------------- bounds
\* Instances of one module on the heap at one time.
MaxInst == 2
\* Handler goroutines started by TriggerEvent and not yet finished.
MaxGoroutines == 2

\* ------------------------------------------------------- the environment
\* The .so files filepath.Walk can meet, in the lexical order it visits them.
PathOrder == <<"p1", "p2">>

Paths == {PathOrder[k] : k \in 1..Len(PathOrder)}

\* Plugin.Name() of the module at each path.
NameOf == [p \in Paths |-> IF p = "p2" THEN "b" ELSE "a"]

\* Plugin.Version() and Plugin.Description() of the module at each path.
VersionOf == [p \in Paths |-> IF p = "p2" THEN "v2" ELSE "v1"]

DescriptionOf == [p \in Paths |-> IF p = "p2" THEN "descB" ELSE "descA"]

\* Names the administrative calls are made with.
Names == {NameOf[p] : p \in Paths}

\* map[string]interface{} values: the nil map and two non-nil maps.
NilConfig == "nil"

Configs == {NilConfig, "d", "x"}

\* Configurations UpdatePluginConfig is called with.
NewConfigs == {"d", "x"}

\* Plugin.DefaultConfig() of the module at each path.
DefaultConfigOf == [p \in Paths |-> IF p = "p2" THEN NilConfig ELSE "d"]

\* EventType constants.
EventAPISuccess == "api_success"

EventAPIError == "api_error"

EventAPIBefore == "api_before"

EventAPIAfter == "api_after"

EventTypes == {EventAPIBefore, EventAPIError}

\* Request paths and path prefixes are strings, kept as sequences of characters.
StrUsers == <<"/", "u">>

StrUsers42 == <<"/", "u", "/", "4">>

StrOrders == <<"/", "o">>

ReqPaths == {StrUsers42, StrOrders}

\* What a module's InterestedEvents() and InterestedAPIs() can return.
Interests ==
    {[events |-> <<EventAPIBefore>>, apis |-> <<StrUsers>>],
     [events |-> <<EventAPIError, EventAPIBefore>>, apis |-> <<StrOrders, StrUsers42>>],
     [events |-> << >>, apis |-> <<StrUsers>>],
     [events |-> <<EventAPIBefore>>, apis |-> << >>]}

\* ------------------------------------------------------------- the state
VARIABLES
    plugins,    \* Manager.plugins: name -> PluginInfo
    insts,      \* the heap of Plugin instances: reference -> instance
    store,      \* the storage in use and the rows it holds: path -> row or NoRow
    goroutines, \* handler goroutines started and not yet run (a bag)
    leaked,     \* paths of the instances dropped while initialized and not closed
    running,    \* the method call that holds m.mutex over several steps, if any
    held        \* the map a caller got from GetAllPlugins and what it points to

vars == <<plugins, insts, store, goroutines, leaked, running, held>>

\* The state the methods below work on, as one record.
Now ==
    [plugins |-> plugins, insts |-> insts, store |-> store, goroutines |-> goroutines,
     leaked |-> leaked]

\* No method call is inside m.mutex.
Idle == [op |-> "none"]

\* m.mutex.Lock() can be taken: no writer and no reader is inside.
Lock == running = Idle

\* m.mutex.RLock() can be taken: no writer is inside.
RLock == running.op # "LoadPlugins"

\* A caller's map once the records under `names` are no longer the ones in
\* m.plugins: its pointers to them point outside the registry.
Detach(h, names) == [n \in DOMAIN h |-> IF n \in names THEN "other" ELSE h[n]]

NoRow == [Name |-> "-", Enabled |-> FALSE, Config |-> "-", present |-> FALSE]

Row(name, enabled, cfgstr) ==
    [Name |-> name, Enabled |-> enabled, Config |-> cfgstr, present |-> TRUE]

\* One call made on a collaborator (a plugin instance or the storage).
Call(c, inst, path, enabled, cfg, ok) ==
    [c |-> c, inst |-> inst, path |-> path, enabled |-> enabled, cfg |-> cfg, ok |-> ok]

\* What a method leaves: the state, the error returned ("ok" for nil) and the
\* calls it made on the collaborators, in order.
Result(s, ps, is, st, ret, calls) ==
    [plugins |-> ps, insts |-> is, store |-> st, goroutines |-> s.goroutines,
     leaked |-> s.leaked, ret |-> ret, calls |-> calls]

\* -------------------------------------------------- the Plugin interface
\* A PluginInfo, as loadPlugin builds it.
PluginInfo(path, enabled, config, inst) ==
    [Name |-> NameOf[path], Version |-> VersionOf[path],
     Description |-> DescriptionOf[path], FilePath |-> path,
     Enabled |-> enabled, Config |-> config, Plugin |-> inst]

\* A fresh instance, as GetPlugin() of the module at `path` returns it.
NewInstance(path) == [path |-> path, life |-> "new", cfg |-> "unset"]

\* A reference to an instance: the module it came from and its rank in age
\* among the instances of that module now on the heap.
Ref(path, gen) == [path |-> path, gen |-> gen]

\* No instance (a call on the storage).
NoRef == Ref("-", 0)

\* The instances of the module at `path` on heap `is`.
InstancesOf(is, path) == {i \in DOMAIN is : i.path = path}

\* The reference a new instance of the module at `path` gets: the youngest.
NewId(is, path) == Ref(path, Cardinality(InstancesOf(is, path)) + 1)

\* The heap with instance `inst` put at reference i.
Alloc(is, i, inst) == [j \in DOMAIN is \cup {i} |-> IF j = i THEN inst ELSE is[j]]

\* The instances of heap `is` that a PluginInfo of ps or a goroutine of gs
\* refers to.
Reachable(ps, is, gs) ==
    {i \in DOMAIN is :
        \/ \E n \in DOMAIN ps : ps[n].Plugin = i
        \/ \E g \in BagToSet(gs) : g.inst = i}

\* Garbage collection in state s: the heap keeps the instances still referred
\* to, each module's instances ranked by age again; the path of an instance
\* that goes while initialized and not closed is added to `leaked`, since
\* nothing can call its Close any more.
Collect(s) ==
    LET keep == Reachable(s.plugins, s.insts, s.goroutines)
        moved(i) == Ref(i.path, Cardinality({j \in keep : j.path = i.path /\ j.gen <= i.gen}))
        old(i) == CHOOSE j \in keep : moved(j) = i
        go(g) == [g EXCEPT !.inst = moved(g.inst)]
    IN  [s EXCEPT
            !.plugins = [n \in DOMAIN s.plugins |->
                            [s.plugins[n] EXCEPT !.Plugin = moved(s.plugins[n].Plugin)]],
            !.insts = [i \in {moved(j) : j \in keep} |-> s.insts[old(i)]],
            !.goroutines = [h \in {go(g) : g \in DOMAIN s.goroutines} |->
                                s.goroutines[CHOOSE g \in DOMAIN s.goroutines : go(g) = h]],
            !.leaked = @ \cup {s.insts[i].path :
                                  i \in {j \in DOMAIN s.insts \ keep :
                                            s.insts[j].life = "init_ok"}}]

\* Plugin.Init(): the instance remembers the outcome of its last lifecycle call.
PluginInit(is, i, ok) ==
    [is EXCEPT ![i].life = IF ok THEN "init_ok" ELSE "init_fail"]

\* Plugin.Close().
PluginClose(is, i, ok) ==
    [is EXCEPT ![i].life = IF ok THEN "close_ok" ELSE "close_fail"]

\* Plugin.SetConfig(config).
PluginSetConfig(is, i, config) == [is EXCEPT ![i].cfg = config]

\* ------------------------------------------- the PluginStorage interface
\* The JSON text of a config map (PluginStorageInfo.Config).
Marshal(config) ==
    CASE config = NilConfig -> "null"
      [] config = "d" -> "{d}"
      [] OTHER -> "{x}"

\* json.Unmarshal with its error dropped: the map stays nil on text that is no
\* JSON and the caller goes on.
Unmarshal_ErrorDropped(text) ==
    CASE text = "{d}" -> [ok |-> TRUE, config |-> "d"]
      [] text = "{x}" -> [ok |-> TRUE, config |-> "x"]
      [] OTHER -> [ok |-> TRUE, config |-> NilConfig]

\* json.Unmarshal([]byte(text), &config) on a nil map variable; text that is
\* no JSON is an error.
Unmarshal(text) ==
    CASE text = "null" -> [ok |-> TRUE, config |-> NilConfig]
      [] text = "{d}" -> [ok |-> TRUE, config |-> "d"]
      [] text = "{x}" -> [ok |-> TRUE, config |-> "x"]
      [] OTHER -> [ok |-> FALSE, config |-> NilConfig]

\* The global `storage`: the DefaultStorage it starts as, or the implementation
\* SetStorage put in its place, with the rows that one holds.
DefaultStorage == [kind |-> "default", rows |-> [p \in Paths |-> NoRow]]

SetStorage(rows) == [kind |-> "set", rows |-> rows]

\* How a storage.SavePlugin call can end: DefaultStorage always returns nil.
SaveOutcomes(st) == IF st.kind = "default" THEN {TRUE} ELSE BOOLEAN

\* storage.SavePlugin(name, path, enabled, config): DefaultStorage does nothing;
\* otherwise the row of `path` is saved or updated, and a write that fails
\* leaves the storage as it was.
SavePlugin(st, name, path, enabled, config, ok) ==
    IF st.kind = "default" \/ ~ok THEN st
    ELSE [st EXCEPT !.rows[path] = Row(name, enabled, Marshal(config))]

\* storage.GetPlugin(path): the row, or nil (NoRow) when there is none, as
\* always with DefaultStorage.
GetPlugin(st, path) == IF st.kind = "default" THEN NoRow ELSE st.rows[path]

\* ------------------------------------------------------------ loadPlugin
\* What the environment decides during one loadPlugin: whether the module opens
\* and yields its GetPlugin function, and whether Init and the storage write
\* succeed.
LoadOutcomes == [open : BOOLEAN, initOk : BOOLEAN, saveOk : BOOLEAN]

\* loadPlugin without the branch for a module the storage does not know: the
\* config stays the nil map it is declared as.
loadPlugin_NoDefaultConfig(s, pluginPath, o) ==
    IF ~o.open
    THEN [s EXCEPT !.loads = Append(@, [path |-> pluginPath, ret |-> "openerr"])]
    ELSE
    LET i == NewId(s.insts, pluginPath)
        pluginDB == GetPlugin(s.store, pluginPath)
        c0 == Append(s.calls, Call("get", NoRef, pluginPath, FALSE, "-", TRUE))
        parse == IF pluginDB.present /\ pluginDB.Config # ""
                 THEN Unmarshal(pluginDB.Config)
                 ELSE [ok |-> TRUE, config |-> NilConfig]
        config == parse.config
        enable == IF pluginDB.present THEN pluginDB.Enabled ELSE FALSE
        is0 == Alloc(s.insts, i, NewInstance(pluginPath))
        is1 == PluginSetConfig(is0, i, config)
        c1 == Append(c0, Call("setconfig", i, pluginPath, FALSE, config, TRUE))
        info == PluginInfo(pluginPath, enable, config, i)
        saved(en) == Call("save", NoRef, pluginPath, en, config, o.saveOk)
        ps1 == [n \in DOMAIN s.plugins \cup {info.Name} |->
                    IF n = info.Name THEN info ELSE s.plugins[n]]
    IN  IF ~parse.ok
        THEN [Collect([s EXCEPT !.insts = is0]) EXCEPT
                       !.calls = c0,
                       !.loads = Append(@, [path |-> pluginPath, ret |-> "parseerr"])]
        ELSE IF info.Enabled /\ ~o.initOk
        THEN [Collect([s EXCEPT !.insts = PluginInit(is1, i, FALSE)]) EXCEPT
                !.store = SavePlugin(@, info.Name, pluginPath, FALSE, info.Config, o.saveOk),
                !.calls = c1 \o <<Call("init", i, pluginPath, FALSE, "-", FALSE), saved(FALSE)>>,
                !.loads = Append(@, [path |-> pluginPath, ret |-> "initerr"])]
        ELSE [Collect([s EXCEPT
                        !.plugins = ps1,
                        !.insts = IF info.Enabled THEN PluginInit(is1, i, TRUE) ELSE is1])
              EXCEPT
                !.store = SavePlugin(@, info.Name, pluginPath, info.Enabled, info.Config, o.saveOk),
                !.calls = (IF info.Enabled
                           THEN Append(c1, Call("init", i, pluginPath, FALSE, "-", TRUE))
                           ELSE c1) \o <<saved(info.Enabled)>>,
                !.loads = Append(@, [path |-> pluginPath, ret |-> "ok"])]

\* loadPlugin(pluginPath) on s, a state with the fields calls and loads: `loads`
\* gets the path and the error loadPlugin returns ("ok" for nil).
loadPlugin(s, pluginPath, o) ==
    IF ~o.open
    THEN [s EXCEPT !.loads = Append(@, [path |-> pluginPath, ret |-> "openerr"])]
    ELSE
    LET i == NewId(s.insts, pluginPath)
        pluginDB == GetPlugin(s.store, pluginPath)
        c0 == Append(s.calls, Call("get", NoRef, pluginPath, FALSE, "-", TRUE))
        parse == IF pluginDB.present /\ pluginDB.Config # ""
                 THEN Unmarshal(pluginDB.Config)
                 ELSE [ok |-> TRUE, config |-> NilConfig]
        config == IF pluginDB.present THEN parse.config
                  ELSE DefaultConfigOf[pluginPath]
        enable == IF pluginDB.present THEN pluginDB.Enabled ELSE FALSE
        is0 == Alloc(s.insts, i, NewInstance(pluginPath))
        is1 == PluginSetConfig(is0, i, config)
        c1 == Append(c0, Call("setconfig", i, pluginPath, FALSE, config, TRUE))
        info == PluginInfo(pluginPath, enable, config, i)
        saved(en) == Call("save", NoRef, pluginPath, en, config, o.saveOk)
        ps1 == [n \in DOMAIN s.plugins \cup {info.Name} |->
                    IF n = info.Name THEN info ELSE s.plugins[n]]
    IN  IF ~parse.ok
        THEN [Collect([s EXCEPT !.insts = is0]) EXCEPT
                       !.calls = c0,
                       !.loads = Append(@, [path |-> pluginPath, ret |-> "parseerr"])]
        ELSE IF info.Enabled /\ ~o.initOk
        THEN [Collect([s EXCEPT !.insts = PluginInit(is1, i, FALSE)]) EXCEPT
                !.store = SavePlugin(@, info.Name, pluginPath, FALSE, info.Config, o.saveOk),
                !.calls = c1 \o <<Call("init", i, pluginPath, FALSE, "-", FALSE), saved(FALSE)>>,
                !.loads = Append(@, [path |-> pluginPath, ret |-> "initerr"])]
        ELSE [Collect([s EXCEPT
                        !.plugins = ps1,
                        !.insts = IF info.Enabled THEN PluginInit(is1, i, TRUE) ELSE is1])
              EXCEPT
                !.store = SavePlugin(@, info.Name, pluginPath, info.Enabled, info.Config, o.saveOk),
                !.calls = (IF info.Enabled
                           THEN Append(c1, Call("init", i, pluginPath, FALSE, "-", TRUE))
                           ELSE c1) \o <<saved(info.Enabled)>>,
                !.loads = Append(@, [path |-> pluginPath, ret |-> "ok"])]

\* The states one loadPlugin(pluginPath) can leave, over what the environment
\* decides; a module is opened only while the heap has room for its instance.
LoadResults(s, pluginPath) ==
    {loadPlugin(s, pluginPath, o) :
        o \in {x \in LoadOutcomes :
                 /\ x.saveOk \in SaveOutcomes(s.store)
                 /\ x.open => Cardinality(InstancesOf(s.insts, pluginPath)) < MaxInst}}

\* The walk of LoadPlugins over `files`, in order: an error of loadPlugin is
\* logged and the walk goes on.
RECURSIVE WalkResults(_, _)
WalkResults(S, files) ==
    IF files = << >> THEN S
    ELSE WalkResults(UNION {LoadResults(s, Head(files)) : s \in S}, Tail(files))

\* LoadPlugins(): `dir` says whether m.pluginDir exists and, when it does not,
\* whether MkdirAll succeeds; `found` are the .so files under it.  The set of
\* the results it can have.
LoadPlugins(s, dir, found) ==
    LET s0 == [plugins |-> s.plugins, insts |-> s.insts, store |-> s.store,
               goroutines |-> s.goroutines, leaked |-> s.leaked,
               calls |-> << >>, loads |-> << >>]
    IN  IF dir = "present"
        THEN {r @@ [ret |-> "ok"] :
                r \in WalkResults({s0}, SelectSeq(PathOrder, LAMBDA p : p \in found))}
        ELSE {s0 @@ [ret |-> IF dir = "created" THEN "ok" ELSE "mkdirerr"]}

LoadPluginsAction ==
    \E dir \in {"present", "created", "mkdirfail"} :
      \E found \in IF dir = "present" THEN SUBSET Paths ELSE {{}} :
        \E r \in LoadPlugins(Now, dir, found) :
            /\ Lock
            /\ plugins' = r.plugins
            /\ insts' = r.insts
            /\ store' = r.store
            /\ goroutines' = r.goroutines
            /\ leaked' = r.leaked
            /\ held' = Detach(held, {NameOf[r.loads[k].path] :
                                        k \in {j \in DOMAIN r.loads : r.loads[j].ret = "ok"}})
            /\ UNCHANGED running

\* ------------------------------------------- LoadPlugins, step by step
\* The local variable info of loadPlugin before it is assigned.
NoInfo == [Name |-> "-", Enabled |-> FALSE]

\* LoadPlugins over an existing directory, followed through its steps: the
\* call takes m.mutex.Lock() and the walk is about to visit `files`; pc is
\* the place in loadPlugin for the first of them, info its local variable.
LoadPluginsBegin ==
    \E found \in SUBSET Paths :
        /\ Lock
        /\ running' = [op |-> "LoadPlugins", pc |-> "walk",
                       files |-> SelectSeq(PathOrder, LAMBDA p : p \in found),
                       info |-> NoInfo]
        /\ UNCHANGED <<plugins, insts, store, goroutines, leaked, held>>

\* The return of loadPlugin to the walk, which goes on with the next file.
NextFile == [running EXCEPT !.pc = "walk", !.files = Tail(@), !.info = NoInfo]

\* loadBuild that puts the record in m.plugins as soon as it is built, before
\* Init.
loadBuild_RegistersFirst ==
    /\ running.op = "LoadPlugins"
    /\ running.pc = "walk"
    /\ running.files # << >>
    /\ LET pluginPath == Head(running.files)
           i == NewId(insts, pluginPath)
           pluginDB == GetPlugin(store, pluginPath)
           parse == IF pluginDB.present /\ pluginDB.Config # ""
                    THEN Unmarshal(pluginDB.Config)
                    ELSE [ok |-> TRUE, config |-> NilConfig]
           config == IF pluginDB.present THEN parse.config
                     ELSE DefaultConfigOf[pluginPath]
           enable == IF pluginDB.present THEN pluginDB.Enabled ELSE FALSE
           info == PluginInfo(pluginPath, enable, config, i)
           r == Collect([Now EXCEPT
                   !.plugins = [n \in DOMAIN plugins \cup {info.Name} |->
                                   IF n = info.Name THEN info ELSE plugins[n]],
                   !.insts = PluginSetConfig(Alloc(insts, i, NewInstance(pluginPath)),
                                             i, config)])
       IN  \E open \in {o \in BOOLEAN :
                           o => Cardinality(InstancesOf(insts, pluginPath)) < MaxInst} :
             IF ~open \/ ~parse.ok
             THEN /\ running' = NextFile
                  /\ UNCHANGED <<plugins, insts, leaked>>
             ELSE /\ plugins' = r.plugins
                  /\ insts' = r.insts
                  /\ leaked' = r.leaked
                  /\ running' = [running EXCEPT !.pc = "built",
                                                !.info = r.plugins[info.Name]]
    /\ UNCHANGED <<store, goroutines, held>>

\* loadPlugin up to the PluginInfo it builds: the module is opened and gives
\* its instance, the row is read and its Config parsed, the config is set on
\* the instance and info is built.  A module that does not open and a Config
\* that does not parse end loadPlugin with an error; the instance of the
\* latter is garbage.
loadBuild ==
    /\ running.op = "LoadPlugins"
    /\ running.pc = "walk"
    /\ running.files # << >>
    /\ LET pluginPath == Head(running.files)
           i == NewId(insts, pluginPath)
           pluginDB == GetPlugin(store, pluginPath)
           parse == IF pluginDB.present /\ pluginDB.Config # ""
                    THEN Unmarshal(pluginDB.Config)
                    ELSE [ok |-> TRUE, config |-> NilConfig]
           config == IF pluginDB.present THEN parse.config
                     ELSE DefaultConfigOf[pluginPath]
           enable == IF pluginDB.present THEN pluginDB.Enabled ELSE FALSE
       IN  \E open \in {o \in BOOLEAN :
                           o => Cardinality(InstancesOf(insts, pluginPath)) < MaxInst} :
             IF ~open \/ ~parse.ok
             THEN /\ running' = NextFile
                  /\ UNCHANGED insts
             ELSE /\ insts' = PluginSetConfig(Alloc(insts, i, NewInstance(pluginPath)),
                                              i, config)
                  /\ running' = [running EXCEPT
                                    !.pc = "built",
                                    !.info = PluginInfo(pluginPath, enable, config, i)]
    /\ UNCHANGED <<plugins, store, goroutines, leaked, held>>

\* loadPlugin, `if info.Enabled`: Init on the instance; when it fails,
\* info.Enabled = false, the write of it (its error logged) and the return of
\* the error, after which the instance is garbage.
loadInit ==
    /\ running.op = "LoadPlugins"
    /\ running.pc = "built"
    /\ LET info == running.info
       IN  IF ~info.Enabled
           THEN /\ running' = [running EXCEPT !.pc = "inited"]
                /\ UNCHANGED <<plugins, insts, store, goroutines, leaked>>
           ELSE \E initOk \in BOOLEAN :
                  IF initOk
                  THEN /\ insts' = PluginInit(insts, info.Plugin, TRUE)
                       /\ running' = [running EXCEPT !.pc = "inited"]
                       /\ UNCHANGED <<plugins, store, goroutines, leaked>>
                  ELSE \E saveOk \in SaveOutcomes(store) :
                         LET r == Collect([Now EXCEPT
                                     !.insts = PluginInit(insts, info.Plugin, FALSE)])
                         IN  /\ plugins' = r.plugins
                             /\ insts' = r.insts
                             /\ goroutines' = r.goroutines
                             /\ leaked' = r.leaked
                             /\ store' = SavePlugin(store, info.Name, info.FilePath, FALSE,
                                                    info.Config, saveOk)
                             /\ running' = NextFile
    /\ UNCHANGED held

\* loadPlugin, m.plugins[info.Name] = info: the record is in the registry, in
\* place of the one that was under its name.
loadRegister ==
    /\ running.op = "LoadPlugins"
    /\ running.pc = "inited"
    /\ LET info == running.info
           r == Collect([Now EXCEPT
                   !.plugins = [n \in DOMAIN plugins \cup {info.Name} |->
                                   IF n = info.Name THEN info ELSE plugins[n]]])
       IN  /\ plugins' = r.plugins
           /\ insts' = r.insts
           /\ goroutines' = r.goroutines
           /\ leaked' = r.leaked
           /\ held' = Detach(held, {info.Name})
           /\ running' = [running EXCEPT !.pc = "registered",
                                         !.info = r.plugins[info.Name]]
    /\ UNCHANGED store

\* loadPlugin, the write of the record (its error logged) and return nil.
loadSave ==
    /\ running.op = "LoadPlugins"
    /\ running.pc = "registered"
    /\ \E saveOk \in SaveOutcomes(store) :
          store' = SavePlugin(store, running.info.Name, running.info.FilePath,
                              running.info.Enabled, running.info.Config, saveOk)
    /\ running' = NextFile
    /\ UNCHANGED <<plugins, insts, goroutines, leaked, held>>

\* The walk is over: the deferred m.mutex.Unlock() runs and LoadPlugins returns.
LoadPluginsReturn ==
    /\ running.op = "LoadPlugins"
    /\ running.pc = "walk"
    /\ running.files = << >>
    /\ running' = Idle
    /\ UNCHANGED <<plugins, insts, store, goroutines, leaked, held>>

\* --------------------------------------------------------- GetAllPlugins
\* GetAllPlugins() in state s: a new map with the keys of m.plugins, each value
\* the *PluginInfo m.plugins holds under that key ("registry": the pointer is
\* the one in m.plugins; "other": it points to a PluginInfo that is not, or
\* no longer, in m.plugins).
GetAllPlugins(s) == [n \in DOMAIN s.plugins |-> "registry"]

GetAllPluginsAction ==
    /\ RLock
    /\ held' = GetAllPlugins(Now)
    /\ UNCHANGED <<plugins, insts, store, goroutines, leaked, running>>

\* What the caller can do with the map it got, outside any lock: delete an
\* entry, add an entry with a PluginInfo of its own, and assign the exported
\* fields Enabled and Config through a pointer in the map.
CallerDelete ==
    \E n \in DOMAIN held :
        /\ held' = [m \in DOMAIN held \ {n} |-> held[m]]
        /\ UNCHANGED <<plugins, insts, store, goroutines, leaked, running>>

CallerAdd ==
    \E n \in Names \ DOMAIN held :
        /\ held' = [m \in DOMAIN held \cup {n} |-> IF m = n THEN "other" ELSE held[m]]
        /\ UNCHANGED <<plugins, insts, store, goroutines, leaked, running>>

CallerSetEnabled ==
    \E n \in DOMAIN held, enabled \in BOOLEAN :
        /\ plugins' = IF held[n] = "registry"
                      THEN [plugins EXCEPT ![n].Enabled = enabled]
                      ELSE plugins
        /\ UNCHANGED <<insts, store, goroutines, leaked, running, held>>

CallerSetConfig ==
    \E n \in DOMAIN held, config \in NewConfigs :
        /\ plugins' = IF held[n] = "registry"
                      THEN [plugins EXCEPT ![n].Config = config]
                      ELSE plugins
        /\ UNCHANGED <<insts, store, goroutines, leaked, running, held>>

\* ---------------------------------------------------------- EnablePlugin
\* EnablePlugin with the rollback of a failed write leaving out the Close.
EnablePlugin_NoRollbackClose(s, name, initOk, saveOk, closeOk) ==
    IF name \notin DOMAIN s.plugins
    THEN Result(s, s.plugins, s.insts, s.store, "notfound", << >>)
    ELSE
    LET plugin == s.plugins[name]
        i == plugin.Plugin
        cInit == Call("init", i, plugin.FilePath, FALSE, "-", initOk)
        cSave == Call("save", NoRef, plugin.FilePath, TRUE, plugin.Config, saveOk)
    IN  IF plugin.Enabled
        THEN Result(s, s.plugins, s.insts, s.store, "ok", << >>)
        ELSE IF ~initOk
        THEN Result(s, s.plugins, PluginInit(s.insts, i, FALSE), s.store,
                    "initerr", <<cInit>>)
        ELSE Result(s, [s.plugins EXCEPT ![name].Enabled = saveOk],
                    PluginInit(s.insts, i, TRUE),
                    SavePlugin(s.store, plugin.Name, plugin.FilePath, TRUE,
                               plugin.Config, saveOk),
                    IF saveOk THEN "ok" ELSE "saveerr", <<cInit, cSave>>)

\* EnablePlugin with plugin.Enabled set before Init and not reset when Init fails.
EnablePlugin_EnabledBeforeInit(s, name, initOk, saveOk, closeOk) ==
    IF name \notin DOMAIN s.plugins
    THEN Result(s, s.plugins, s.insts, s.store, "notfound", << >>)
    ELSE
    LET plugin == s.plugins[name]
        i == plugin.Plugin
        cInit == Call("init", i, plugin.FilePath, FALSE, "-", initOk)
        cSave == Call("save", NoRef, plugin.FilePath, TRUE, plugin.Config, saveOk)
        cClose == Call("close", i, plugin.FilePath, FALSE, "-", closeOk)
    IN  IF plugin.Enabled
        THEN Result(s, s.plugins, s.insts, s.store, "ok", << >>)
        ELSE IF ~initOk
        THEN Result(s, [s.plugins EXCEPT ![name].Enabled = TRUE],
                    PluginInit(s.insts, i, FALSE), s.store, "initerr", <<cInit>>)
        ELSE IF ~saveOk
        THEN Result(s, [s.plugins EXCEPT ![name].Enabled = FALSE],
                    PluginClose(PluginInit(s.insts, i, TRUE), i, closeOk),
                    s.store, "saveerr", <<cInit, cSave, cClose>>)
        ELSE Result(s, [s.plugins EXCEPT ![name].Enabled = TRUE],
                    PluginInit(s.insts, i, TRUE),
                    SavePlugin(s.store, plugin.Name, plugin.FilePath, TRUE,
                               plugin.Config, TRUE),
                    "ok", <<cInit, cSave>>)

\* EnablePlugin without the early return for a record that is already enabled.
EnablePlugin_NoEnabledCheck(s, name, initOk, saveOk, closeOk) ==
    IF name \notin DOMAIN s.plugins
    THEN Result(s, s.plugins, s.insts, s.store, "notfound", << >>)
    ELSE
    LET plugin == s.plugins[name]
        i == plugin.Plugin
        cInit == Call("init", i, plugin.FilePath, FALSE, "-", initOk)
        cSave == Call("save", NoRef, plugin.FilePath, TRUE, plugin.Config, saveOk)
        cClose == Call("close", i, plugin.FilePath, FALSE, "-", closeOk)
    IN  IF ~initOk
        THEN Result(s, s.plugins, PluginInit(s.insts, i, FALSE), s.store,
                    "initerr", <<cInit>>)
        ELSE IF ~saveOk
        THEN Result(s, [s.plugins EXCEPT ![name].Enabled = FALSE],
                    PluginClose(PluginInit(s.insts, i, TRUE), i, closeOk),
                    s.store, "saveerr", <<cInit, cSave, cClose>>)
        ELSE Result(s, [s.plugins EXCEPT ![name].Enabled = TRUE],
                    PluginInit(s.insts, i, TRUE),
                    SavePlugin(s.store, plugin.Name, plugin.FilePath, TRUE,
                               plugin.Config, TRUE),
                    "ok", <<cInit, cSave>>)

\* EnablePlugin that only logs a failed write, as DisablePlugin does.
EnablePlugin_WriteErrorLogged(s, name, initOk, saveOk, closeOk) ==
    IF name \notin DOMAIN s.plugins
    THEN Result(s, s.plugins, s.insts, s.store, "notfound", << >>)
    ELSE
    LET plugin == s.plugins[name]
        i == plugin.Plugin
        cInit == Call("init", i, plugin.FilePath, FALSE, "-", initOk)
        cSave == Call("save", NoRef, plugin.FilePath, TRUE, plugin.Config, saveOk)
    IN  IF plugin.Enabled
        THEN Result(s, s.plugins, s.insts, s.store, "ok", << >>)
        ELSE IF ~initOk
        THEN Result(s, s.plugins, PluginInit(s.insts, i, FALSE), s.store,
                    "initerr", <<cInit>>)
        ELSE Result(s, [s.plugins EXCEPT ![name].Enabled = TRUE],
                    PluginInit(s.insts, i, TRUE),
                    SavePlugin(s.store, plugin.Name, plugin.FilePath, TRUE,
                               plugin.Config, saveOk),
                    "ok", <<cInit, cSave>>)

\* EnablePlugin(name) in state s; initOk, saveOk and closeOk say how Init,
\* storage.SavePlugin and Close end if they are called.
EnablePlugin(s, name, initOk, saveOk, closeOk) ==
    IF name \notin DOMAIN s.plugins
    THEN Result(s, s.plugins, s.insts, s.store, "notfound", << >>)
    ELSE
    LET plugin == s.plugins[name]
        i == plugin.Plugin
        cInit == Call("init", i, plugin.FilePath, FALSE, "-", initOk)
        cSave == Call("save", NoRef, plugin.FilePath, TRUE, plugin.Config, saveOk)
        cClose == Call("close", i, plugin.FilePath, FALSE, "-", closeOk)
    IN  IF plugin.Enabled
        THEN Result(s, s.plugins, s.insts, s.store, "ok", << >>)
        ELSE IF ~initOk
        THEN Result(s, s.plugins, PluginInit(s.insts, i, FALSE), s.store,
                    "initerr", <<cInit>>)
        ELSE IF ~saveOk
        THEN Result(s, [s.plugins EXCEPT ![name].Enabled = FALSE],
                    PluginClose(PluginInit(s.insts, i, TRUE), i, closeOk),
                    SavePlugin(s.store, plugin.Name, plugin.FilePath, TRUE,
                               plugin.Config, FALSE),
                    "saveerr", <<cInit, cSave, cClose>>)
        ELSE Result(s, [s.plugins EXCEPT ![name].Enabled = TRUE],
                    PluginInit(s.insts, i, TRUE),
                    SavePlugin(s.store, plugin.Name, plugin.FilePath, TRUE,
                               plugin.Config, TRUE),
                    "ok", <<cInit, cSave>>)

EnablePluginAction ==
    \E name \in Names, initOk \in BOOLEAN :
      \E saveOk \in IF initOk THEN SaveOutcomes(store) ELSE {TRUE} :
        \E closeOk \in IF saveOk THEN {TRUE} ELSE BOOLEAN :
          LET r == EnablePlugin(Now, name, initOk, saveOk, closeOk)
          IN  /\ Lock
              /\ plugins' = r.plugins
              /\ insts' = r.insts
              /\ store' = r.store
              /\ UNCHANGED <<goroutines, leaked, running, held>>

\* --------------------------------------------------------- DisablePlugin
\* DisablePlugin that marks the record disabled without calling Close.
DisablePlugin_NoClose(s, name, closeOk, saveOk) ==
    IF name \notin DOMAIN s.plugins
    THEN Result(s, s.plugins, s.insts, s.store, "notfound", << >>)
    ELSE
    LET plugin == s.plugins[name]
    IN  IF ~plugin.Enabled
        THEN Result(s, s.plugins, s.insts, s.store, "ok", << >>)
        ELSE Result(s, [s.plugins EXCEPT ![name].Enabled = FALSE], s.insts,
                    SavePlugin(s.store, plugin.Name, plugin.FilePath, FALSE,
                               plugin.Config, saveOk),
                    "ok",
                    <<Call("save", NoRef, plugin.FilePath, FALSE, plugin.Config, saveOk)>>)

\* DisablePlugin that closes the instance and leaves plugin.Enabled as it was.
DisablePlugin_KeepEnabled(s, name, closeOk, saveOk) ==
    IF name \notin DOMAIN s.plugins
    THEN Result(s, s.plugins, s.insts, s.store, "notfound", << >>)
    ELSE
    LET plugin == s.plugins[name]
        i == plugin.Plugin
    IN  IF ~plugin.Enabled
        THEN Result(s, s.plugins, s.insts, s.store, "ok", << >>)
        ELSE Result(s, s.plugins, PluginClose(s.insts, i, closeOk),
                    SavePlugin(s.store, plugin.Name, plugin.FilePath, FALSE,
                               plugin.Config, saveOk),
                    "ok",
                    <<Call("close", i, plugin.FilePath, FALSE, "-", closeOk),
                      Call("save", NoRef, plugin.FilePath, FALSE, plugin.Config, saveOk)>>)

\* DisablePlugin made symmetric with EnablePlugin: a failed write is returned
\* and the record is marked enabled again.
DisablePlugin_RollbackOnSaveError(s, name, closeOk, saveOk) ==
    IF name \notin DOMAIN s.plugins
    THEN Result(s, s.plugins, s.insts, s.store, "notfound", << >>)
    ELSE
    LET plugin == s.plugins[name]
        i == plugin.Plugin
    IN  IF ~plugin.Enabled
        THEN Result(s, s.plugins, s.insts, s.store, "ok", << >>)
        ELSE Result(s, [s.plugins EXCEPT ![name].Enabled = ~saveOk],
                    PluginClose(s.insts, i, closeOk),
                    SavePlugin(s.store, plugin.Name, plugin.FilePath, FALSE,
                               plugin.Config, saveOk),
                    IF saveOk THEN "ok" ELSE "saveerr",
                    <<Call("close", i, plugin.FilePath, FALSE, "-", closeOk),
                      Call("save", NoRef, plugin.FilePath, FALSE, plugin.Config, saveOk)>>)

\* DisablePlugin that also cancels the handlers started on the instance.
DisablePlugin_CancelsHandlers(s, name, closeOk, saveOk) ==
    IF name \notin DOMAIN s.plugins
    THEN Result(s, s.plugins, s.insts, s.store, "notfound", << >>)
    ELSE
    LET plugin == s.plugins[name]
        i == plugin.Plugin
        kept == {g \in DOMAIN s.goroutines : g.inst # i}
    IN  IF ~plugin.Enabled
        THEN Result(s, s.plugins, s.insts, s.store, "ok", << >>)
        ELSE [Result(s, [s.plugins EXCEPT ![name].Enabled = FALSE],
                     PluginClose(s.insts, i, closeOk),
                     SavePlugin(s.store, plugin.Name, plugin.FilePath, FALSE,
                                plugin.Config, saveOk),
                     "ok",
                     <<Call("close", i, plugin.FilePath, FALSE, "-", closeOk),
                       Call("save", NoRef, plugin.FilePath, FALSE, plugin.Config, saveOk)>>)
              EXCEPT !.goroutines = [g \in kept |-> s.goroutines[g]]]

DisablePlugin(s, name, closeOk, saveOk) ==
    IF name \notin DOMAIN s.plugins
    THEN Result(s, s.plugins, s.insts, s.store, "notfound", << >>)
    ELSE
    LET plugin == s.plugins[name]
        i == plugin.Plugin
    IN  IF ~plugin.Enabled
        THEN Result(s, s.plugins, s.insts, s.store, "ok", << >>)
        ELSE Result(s, [s.plugins EXCEPT ![name].Enabled = FALSE],
                    PluginClose(s.insts, i, closeOk),
                    SavePlugin(s.store, plugin.Name, plugin.FilePath, FALSE,
                               plugin.Config, saveOk),
                    "ok",
                    <<Call("close", i, plugin.FilePath, FALSE, "-", closeOk),
                      Call("save", NoRef, plugin.FilePath, FALSE, plugin.Config, saveOk)>>)

DisablePluginAction ==
    \E name \in Names, closeOk \in BOOLEAN, saveOk \in SaveOutcomes(store) :
        LET r == DisablePlugin(Now, name, closeOk, saveOk)
        IN  /\ Lock
            /\ plugins' = r.plugins
            /\ insts' = r.insts
            /\ store' = r.store
            /\ UNCHANGED <<goroutines, leaked, running, held>>

\* ---------------------------------------------------- UpdatePluginConfig
\* UpdatePluginConfig whose rollback restores plugin.Config and leaves the
\* instance with the new configuration.
UpdatePluginConfig_NoInstanceRollback(s, name, config, saveOk) ==
    IF name \notin DOMAIN s.plugins
    THEN Result(s, s.plugins, s.insts, s.store, "notfound", << >>)
    ELSE
    LET plugin == s.plugins[name]
        i == plugin.Plugin
        cSet == Call("setconfig", i, plugin.FilePath, FALSE, config, TRUE)
        cSave == Call("save", NoRef, plugin.FilePath, plugin.Enabled, config, saveOk)
    IN  Result(s, [s.plugins EXCEPT ![name].Config = IF saveOk THEN config ELSE @],
               PluginSetConfig(s.insts, i, config),
               SavePlugin(s.store, plugin.Name, plugin.FilePath, plugin.Enabled,
                          config, saveOk),
               IF saveOk THEN "ok" ELSE "saveerr", <<cSet, cSave>>)

\* UpdatePluginConfig that takes an unknown name for nothing to do.
UpdatePluginConfig_MissingIsOk(s, name, config, saveOk) ==
    IF name \notin DOMAIN s.plugins
    THEN Result(s, s.plugins, s.insts, s.store, "ok", << >>)
    ELSE
    LET plugin == s.plugins[name]
        i == plugin.Plugin
        oldConfig == plugin.Config
        cSet == Call("setconfig", i, plugin.FilePath, FALSE, config, TRUE)
        cSave == Call("save", NoRef, plugin.FilePath, plugin.Enabled, config, saveOk)
    IN  IF ~saveOk
        THEN Result(s, s.plugins,
                    PluginSetConfig(PluginSetConfig(s.insts, i, config), i, oldConfig),
                    s.store, "saveerr",
                    <<cSet, cSave,
                      Call("setconfig", i, plugin.FilePath, FALSE, oldConfig, TRUE)>>)
        ELSE Result(s, [s.plugins EXCEPT ![name].Config = config],
                    PluginSetConfig(s.insts, i, config),
                    SavePlugin(s.store, plugin.Name, plugin.FilePath, plugin.Enabled,
                               config, TRUE),
                    "ok", <<cSet, cSave>>)

UpdatePluginConfig(s, name, config, saveOk) ==
    IF name \notin DOMAIN s.plugins
    THEN Result(s, s.plugins, s.insts, s.store, "notfound", << >>)
    ELSE
    LET plugin == s.plugins[name]
        i == plugin.Plugin
        oldConfig == plugin.Config
        cSet == Call("setconfig", i, plugin.FilePath, FALSE, config, TRUE)
        cSave == Call("save", NoRef, plugin.FilePath, plugin.Enabled, config, saveOk)
    IN  IF ~saveOk
        THEN Result(s, [s.plugins EXCEPT ![name].Config = oldConfig],
                    PluginSetConfig(PluginSetConfig(s.insts, i, config), i, oldConfig),
                    SavePlugin(s.store, plugin.Name, plugin.FilePath, plugin.Enabled,
                               config, FALSE),
                    "saveerr",
                    <<cSet, cSave,
                      Call("setconfig", i, plugin.FilePath, FALSE, oldConfig, TRUE)>>)
        ELSE Result(s, [s.plugins EXCEPT ![name].Config = config],
                    PluginSetConfig(s.insts, i, config),
                    SavePlugin(s.store, plugin.Name, plugin.FilePath, plugin.Enabled,
                               config, TRUE),
                    "ok", <<cSet, cSave>>)

UpdatePluginConfigAction ==
    \E name \in Names, config \in NewConfigs, saveOk \in SaveOutcomes(store) :
        LET r == UpdatePluginConfig(Now, name, config, saveOk)
        IN  /\ Lock
            /\ plugins' = r.plugins
            /\ insts' = r.insts
            /\ store' = r.store
            /\ UNCHANGED <<goroutines, leaked, running, held>>

\* ---------------------------------------------------------- TriggerEvent
\* A match of the whole path in place of the prefix match.
HasPrefix_WholePath(str, prefix) == str = prefix

\* strings.HasPrefix(s, prefix).
HasPrefix(str, prefix) ==
    Len(str) >= Len(prefix) /\ SubSeq(str, 1, Len(prefix)) = prefix

\* The loop over interestedEvents: is `event` one of them.
EventInterested(interestedEvents, event) ==
    \E k \in 1..Len(interestedEvents) : interestedEvents[k] = event

\* The loop over interestedAPIs: is one of them a prefix of `path`.
ApiInterested(interestedAPIs, path) ==
    \E k \in 1..Len(interestedAPIs) : HasPrefix(path, interestedAPIs[k])

\* The go statement's arguments: the instance and the name of the record.
Goroutine(pluginInfo) == [inst |-> pluginInfo.Plugin, name |-> pluginInfo.Name]

\* The orders a range over a map with key set S can take.
RangeOrders(S) ==
    {f \in [1..Cardinality(S) -> S] :
        \A j, k \in 1..Cardinality(S) : j # k => f[j] # f[k]}

\* TriggerEvent(ctx, event, path, ...) in state s: the goroutines it starts, in
\* the order `order` in which it ranges over m.plugins; interest[name] is what
\* the instance of that record returns from InterestedEvents() and
\* InterestedAPIs() during this call.
RECURSIVE TriggerEvent(_, _, _, _, _)
TriggerEvent(s, order, interest, event, path) ==
    IF order = << >> THEN << >>
    ELSE
    LET pluginInfo == s.plugins[Head(order)]
        rest == TriggerEvent(s, Tail(order), interest, event, path)
    IN  IF ~pluginInfo.Enabled THEN rest
        ELSE IF ~EventInterested(interest[Head(order)].events, event) THEN rest
        ELSE IF ~ApiInterested(interest[Head(order)].apis, path) THEN rest
        ELSE <<Goroutine(pluginInfo)>> \o rest

\* What the instances can answer during one TriggerEvent in state s: the two
\* methods are called on the instances of enabled records only.
InterestAnswers(s) ==
    {f \in [DOMAIN s.plugins -> Interests] :
        \A n \in DOMAIN s.plugins :
            ~s.plugins[n].Enabled => f[n] = [events |-> << >>, apis |-> <<StrUsers>>]}

RECURSIVE BagOfSeq(_)
BagOfSeq(q) ==
    IF q = << >> THEN EmptyBag ELSE SetToBag({Head(q)}) (+) BagOfSeq(Tail(q))

TriggerEventAction ==
    \E event \in EventTypes, path \in ReqPaths, order \in RangeOrders(DOMAIN plugins),
       interest \in InterestAnswers(Now) :
        LET started == TriggerEvent(Now, order, interest, event, path)
        IN  /\ RLock
            /\ BagCardinality(goroutines) + Len(started) <= MaxGoroutines
            /\ goroutines' = goroutines (+) BagOfSeq(started)
            /\ UNCHANGED <<plugins, insts, store, leaked, running, held>>

\* TriggerEvent step by step.  The call takes m.mutex.RLock() and is about to
\* range over m.plugins in the order `order`; `started` counts the go
\* statements it has executed.  One TriggerEvent at a time is followed
\* through its steps.
TriggerEventBegin ==
    \E event \in EventTypes, path \in ReqPaths, order \in RangeOrders(DOMAIN plugins) :
        /\ RLock
        /\ running = Idle
        /\ running' = [op |-> "TriggerEvent", order |-> order, event |-> event,
                       path |-> path, started |-> 0]
        /\ UNCHANGED <<plugins, insts, store, goroutines, leaked, held>>

\* One iteration of the range: the three tests on the next record, with what
\* its instance answers, and the go statement when it passes them.
TriggerEventStep ==
    /\ running.op = "TriggerEvent"
    /\ running.order # << >>
    /\ \E answer \in Interests :
          LET name == Head(running.order)
              started == TriggerEvent(Now, <<name>>, [n \in {name} |-> answer],
                                      running.event, running.path)
          IN  /\ BagCardinality(goroutines) + Len(started) <= MaxGoroutines
              /\ goroutines' = goroutines (+) BagOfSeq(started)
              /\ running' = [running EXCEPT !.order = Tail(@),
                                            !.started = @ + Len(started)]
    /\ UNCHANGED <<plugins, insts, store, leaked, held>>

\* TriggerEventReturn made to wait for the handlers (a sync.WaitGroup).
TriggerEventReturn_WaitsForHandlers ==
    /\ running.op = "TriggerEvent"
    /\ running.order = << >>
    /\ goroutines = EmptyBag
    /\ running' = Idle
    /\ UNCHANGED <<plugins, insts, store, goroutines, leaked, held>>

\* The range is over: the deferred m.mutex.RUnlock() runs and the call returns.
TriggerEventReturn ==
    /\ running.op = "TriggerEvent"
    /\ running.order = << >>
    /\ running' = Idle
    /\ UNCHANGED <<plugins, insts, store, goroutines, leaked, held>>

\* One started goroutine runs p.OnAPIEvent(...); its error is only logged.
OnAPIEventAction ==
    \E g \in BagToSet(goroutines), ok \in BOOLEAN :
        LET r == Collect([Now EXCEPT !.goroutines = @ (-) SetToBag({g})])
        IN  /\ goroutines' = r.goroutines
            /\ plugins' = r.plugins
            /\ insts' = r.insts
            /\ leaked' = r.leaked
            /\ UNCHANGED <<store, running, held>>

\* -------------------------------------------------------------- Shutdown
\* The loop of Shutdown: Close on every record's instance in the order of the
\* range, closeOk[name] saying whether that Close succeeds.
RECURSIVE ShutdownCloses(_, _, _, _)
ShutdownCloses(s, is, order, closeOk) ==
    IF order = << >> THEN [insts |-> is, calls |-> << >>]
    ELSE
    LET pluginInfo == s.plugins[Head(order)]
        i == pluginInfo.Plugin
        rest == ShutdownCloses(s, PluginClose(is, i, closeOk[Head(order)]),
                               Tail(order), closeOk)
    IN  [insts |-> rest.insts,
         calls |-> <<Call("close", i, pluginInfo.FilePath, FALSE, "-",
                          closeOk[Head(order)])>> \o rest.calls]

\* Shutdown that closes the instances and leaves m.plugins as it is.
Shutdown_KeepsRegistry(s, order, closeOk) ==
    LET r == ShutdownCloses(s, s.insts, order, closeOk)
    IN  Collect(Result(s, s.plugins, r.insts, s.store, "ok", r.calls))

\* Shutdown(): the loop, then m.plugins is a new empty map.
Shutdown(s, order, closeOk) ==
    LET r == ShutdownCloses(s, s.insts, order, closeOk)
    IN  Collect(Result(s, << >>, r.insts, s.store, "ok", r.calls))

ShutdownAction ==
    \E order \in RangeOrders(DOMAIN plugins), closeOk \in [DOMAIN plugins -> BOOLEAN] :
        LET r == Shutdown(Now, order, closeOk)
        IN  /\ Lock
            /\ plugins' = r.plugins
            /\ insts' = r.insts
            /\ store' = r.store
            /\ goroutines' = r.goroutines
            /\ leaked' = r.leaked
            /\ held' = Detach(held, DOMAIN plugins)
            /\ UNCHANGED running

\* --------------------------------------------------------- specification
\* GetManager() and the package variables: an empty registry and DefaultStorage.
Init ==
    /\ plugins = << >>
    /\ insts = << >>
    /\ store = DefaultStorage
    /\ goroutines = EmptyBag
    /\ leaked = {}
    /\ running = Idle
    /\ held = << >>

\* Rows a storage given to SetStorage may hold for a path at that time.
InitRows(p) ==
    IF p = "p1" THEN {NoRow, Row(NameOf[p], TRUE, "{x}")}
    ELSE {NoRow, Row(NameOf[p], FALSE, ""), Row(NameOf[p], TRUE, "bad")}

\* The start when the host calls SetStorage before it uses the manager.
InitSetStorage ==
    /\ plugins = << >>
    /\ insts = << >>
    /\ store \in {SetStorage(rows) :
                    rows \in {r \in [Paths -> UNION {InitRows(p) : p \in Paths}] :
                                \A p \in Paths : r[p] \in InitRows(p)}}
    /\ goroutines = EmptyBag
    /\ leaked = {}
    /\ running = Idle
    /\ held = << >>

\* The administrative methods, which take m.mutex.Lock().
NextAdmin ==
    \/ LoadPluginsAction
    \/ EnablePluginAction
    \/ DisablePluginAction
    \/ UpdatePluginConfigAction
    \/ ShutdownAction

Next ==
    \/ NextAdmin
    \/ TriggerEventAction
    \/ OnAPIEventAction

Spec == Init /\ [][Next]_vars

\* Event dispatch beside the methods that decide which records exist and are
\* enabled, with DefaultStorage; configurations stay as loaded and the
\* manager is not shut down.
NextNotify ==
    \/ LoadPluginsAction
    \/ EnablePluginAction
    \/ DisablePluginAction
    \/ TriggerEventAction
    \/ OnAPIEventAction

SpecNotify == Init /\ [][NextNotify]_vars

\* TriggerEvent followed through its steps, with the handlers it starts,
\* beside the methods that register and enable records; DefaultStorage.
NextScan ==
    \/ LoadPluginsAction
    \/ EnablePluginAction
    \/ TriggerEventBegin
    \/ TriggerEventStep
    \/ TriggerEventReturn
    \/ OnAPIEventAction

SpecScan == Init /\ [][NextScan]_vars

\* A caller of GetAllPlugins and what it does with the result, beside the
\* methods that put records in m.plugins and take them out; DefaultStorage.
NextCaller ==
    \/ LoadPluginsAction
    \/ EnablePluginAction
    \/ ShutdownAction
    \/ GetAllPluginsAction
    \/ CallerDelete
    \/ CallerAdd
    \/ CallerSetEnabled
    \/ CallerSetConfig

SpecCaller == Init /\ [][NextCaller]_vars

\* The administrative methods over a storage put in place by SetStorage; no
\* TriggerEvent, so no goroutine.
SpecAdmin == InitSetStorage /\ [][NextAdmin]_vars

\* LoadPlugins followed through its steps, beside GetAllPlugins and the
\* methods that enable and disable, over a storage put in place by SetStorage.
NextLoad ==
    \/ LoadPluginsBegin
    \/ loadBuild
    \/ loadInit
    \/ loadRegister
    \/ loadSave
    \/ LoadPluginsReturn
    \/ GetAllPluginsAction
    \/ EnablePluginAction
    \/ DisablePluginAction

SpecLoad == InitSetStorage /\ [][NextLoad]_vars

\* DisablePlugin, EnablePlugin and LoadPlugins over a storage put in place by
\* SetStorage: the methods that set Enabled and write it.
NextFlags ==
    \/ DisablePluginAction
    \/ EnablePluginAction
    \/ LoadPluginsAction

SpecFlags == InitSetStorage /\ [][NextFlags]_vars

\* ================================================================ claims
\* The number of calls of kind c among `calls`.
Count(calls, c) == Len(SelectSeq(calls, LAMBDA x : x.c = c))

\* The positions in `calls` of the calls of kind c.
Positions(calls, c) == {k \in 1..Len(calls) : calls[k].c = c}

\* The instance of the record registered under `name`.
InstanceOf(name) == insts[plugins[name].Plugin]

\* The configuration a row of the storage holds.
RowConfig(row) ==
    IF row.Config = "" THEN [ok |-> TRUE, config |-> NilConfig] ELSE Unmarshal(row.Config)

Registered == DOMAIN plugins

\* C1, as stated: an enabled record's instance was last initialized with
\* success; a disabled record's instance was never initialized (with success)
\* or its Close succeeded.
C1_AsStated ==
    \A n \in Registered :
        /\ plugins[n].Enabled => InstanceOf(n).life = "init_ok"
        /\ ~plugins[n].Enabled => InstanceOf(n).life \in {"new", "init_fail", "close_ok"}

\* C1, amended: an enabled record's instance was last initialized with
\* success; the last lifecycle call on a disabled record's instance is not a
\* successful Init: none, a failed Init, or a Close that succeeded or failed.
C1_EnabledIffInitialized ==
    \A n \in Registered :
        /\ plugins[n].Enabled => InstanceOf(n).life = "init_ok"
        /\ ~plugins[n].Enabled =>
              InstanceOf(n).life \in {"new", "init_fail", "close_ok", "close_fail"}

\* One record is enabled and initialized while another is disabled after a
\* Close that failed.
C1_Witness ==
    \E n, m \in Registered :
        /\ plugins[n].Enabled /\ InstanceOf(n).life = "init_ok"
        /\ ~plugins[m].Enabled /\ InstanceOf(m).life = "close_fail"

\* C2: for every registered record the record's config, the config last set
\* on its instance and the config the storage holds for its path are equal.
C2_ConfigTriple ==
    \A n \in Registered :
        LET row == store.rows[plugins[n].FilePath]
        IN  /\ InstanceOf(n).cfg = plugins[n].Config
            /\ row.present
            /\ RowConfig(row).ok
            /\ RowConfig(row).config = plugins[n].Config

\* C3: EnablePlugin on a registered, disabled record, Init succeeding and the
\* write failing: the record stays disabled, Close is called once, on the
\* record's instance and after Init, and the error is the storage error
\* whatever Close returns.
C3_EnableRollsBack ==
    \A n \in Registered, closeOk \in BOOLEAN :
        ~plugins[n].Enabled =>
            LET r == EnablePlugin(Now, n, TRUE, FALSE, closeOk)
            IN  /\ r.ret = "saveerr"
                /\ ~r.plugins[n].Enabled
                /\ Count(r.calls, "close") = 1
                /\ \A k \in Positions(r.calls, "close") :
                      /\ r.calls[k].inst = plugins[n].Plugin
                      /\ \A j \in Positions(r.calls, "init") : j < k
                /\ r.insts[plugins[n].Plugin].life =
                      (IF closeOk THEN "close_ok" ELSE "close_fail")
                /\ r.store = store

\* A disabled record is registered over a storage whose writes can fail, and
\* EnablePlugin there ends with the storage error after a Close that failed.
C3_Witness ==
    \E n \in Registered :
        /\ ~plugins[n].Enabled
        /\ FALSE \in SaveOutcomes(store)
        /\ LET r == EnablePlugin(Now, n, TRUE, FALSE, FALSE)
           IN  r.ret = "saveerr" /\ r.insts[plugins[n].Plugin].life = "close_fail"

\* C4: UpdatePluginConfig on a registered record with the write failing returns
\* an error and leaves the record's config, the config of the instance and
\* the storage as they were before the call.
C4_UpdateRollsBack ==
    \A n \in Registered, config \in NewConfigs :
        LET r == UpdatePluginConfig(Now, n, config, FALSE)
            i == plugins[n].Plugin
        IN  /\ r.ret = "saveerr"
            /\ r.plugins[n].Config = plugins[n].Config
            /\ r.insts[i].cfg = insts[i].cfg
            /\ r.store = store

\* A registered record over a storage whose writes can fail, and a new config
\* that differs from the one it has.
C4_Witness ==
    \E n \in Registered, config \in NewConfigs :
        /\ config # plugins[n].Config
        /\ FALSE \in SaveOutcomes(store)
        /\ UpdatePluginConfig(Now, n, config, FALSE).ret = "saveerr"

\* C5: EnablePlugin on a registered, disabled record with Init failing returns
\* an error, leaves every record as it was, writes nothing and does not call
\* Close.
C5_EnableInitFails ==
    \A n \in Registered, saveOk \in BOOLEAN, closeOk \in BOOLEAN :
        ~plugins[n].Enabled =>
            LET r == EnablePlugin(Now, n, FALSE, saveOk, closeOk)
            IN  /\ r.ret = "initerr"
                /\ r.plugins = plugins
                /\ ~r.plugins[n].Enabled
                /\ Count(r.calls, "save") = 0
                /\ Count(r.calls, "close") = 0
                /\ r.store = store

\* A disabled record whose Init has failed once already (an EnablePlugin that
\* failed), on which EnablePlugin fails in Init again.
C5_Witness ==
    \E n \in Registered :
        /\ ~plugins[n].Enabled
        /\ InstanceOf(n).life = "init_fail"
        /\ EnablePlugin(Now, n, FALSE, TRUE, TRUE).ret = "initerr"

\* C6: EnablePlugin on a record that is already enabled returns success and
\* does nothing: no Init, no write, the record (its config with it), the
\* instances and the storage as before.
C6_EnableEnabledNoOp ==
    \A n \in Registered, initOk \in BOOLEAN, saveOk \in BOOLEAN, closeOk \in BOOLEAN :
        plugins[n].Enabled =>
            LET r == EnablePlugin(Now, n, initOk, saveOk, closeOk)
            IN  /\ r.ret = "ok"
                /\ r.calls = << >>
                /\ r.plugins[n].Config = plugins[n].Config
                /\ r.plugins = plugins
                /\ r.insts = insts
                /\ r.store = store

\* An enabled, initialized record, on which EnablePlugin returns success.
C6_Witness ==
    \E n \in Registered :
        /\ plugins[n].Enabled
        /\ InstanceOf(n).life = "init_ok"
        /\ EnablePlugin(Now, n, TRUE, TRUE, TRUE).ret = "ok"
        /\ EnablePlugin(Now, n, TRUE, TRUE, TRUE).calls = << >>

\* C7: for an enabled record, DisablePlugin and then EnablePlugin (Init and the
\* write succeeding) end with the record enabled; over the two calls Init is
\* called once and Close once, and the Close comes before the Init.
C7_DisableThenEnable ==
    \A n \in Registered, closeOk \in BOOLEAN, saveOk \in BOOLEAN :
        plugins[n].Enabled =>
            LET d == DisablePlugin(Now, n, closeOk, saveOk)
                e == EnablePlugin(d, n, TRUE, TRUE, TRUE)
                calls == d.calls \o e.calls
            IN  /\ d.ret = "ok"
                /\ e.ret = "ok"
                /\ e.plugins[n].Enabled
                /\ Count(calls, "init") = 1
                /\ Count(calls, "close") = 1
                /\ \A j \in Positions(calls, "close"), k \in Positions(calls, "init") :
                      /\ j < k
                      /\ calls[j].inst = plugins[n].Plugin
                      /\ calls[k].inst = plugins[n].Plugin
                /\ e.insts[plugins[n].Plugin].life = "init_ok"

\* An enabled record that is disabled with Close failing and enabled again.
C7_Witness ==
    \E n \in Registered :
        /\ plugins[n].Enabled
        /\ LET d == DisablePlugin(Now, n, FALSE, TRUE)
           IN  /\ ~d.plugins[n].Enabled
               /\ d.insts[plugins[n].Plugin].life = "close_fail"
               /\ EnablePlugin(d, n, TRUE, TRUE, TRUE).plugins[n].Enabled

\* C8: DisablePlugin on an enabled record returns success and leaves the record
\* disabled whatever Close and the write return, with Close called once; on a
\* disabled record it calls neither Close nor the write.
C8_DisableAlwaysSucceeds ==
    \A n \in Registered, closeOk \in BOOLEAN, saveOk \in BOOLEAN :
        LET r == DisablePlugin(Now, n, closeOk, saveOk)
        IN  IF plugins[n].Enabled
            THEN /\ r.ret = "ok"
                 /\ ~r.plugins[n].Enabled
                 /\ Count(r.calls, "close") = 1
                 /\ Count(r.calls, "init") = 0
            ELSE /\ r.ret = "ok"
                 /\ Count(r.calls, "close") = 0
                 /\ Count(r.calls, "save") = 0
                 /\ ~r.plugins[n].Enabled

\* An enabled record over a storage whose writes can fail is disabled with
\* both Close and the write failing, while another record is disabled already.
C8_Witness ==
    \E n, m \in Registered :
        /\ plugins[n].Enabled
        /\ ~plugins[m].Enabled
        /\ FALSE \in SaveOutcomes(store)
        /\ LET r == DisablePlugin(Now, n, FALSE, FALSE)
           IN  r.ret = "ok" /\ ~r.plugins[n].Enabled /\ r.store = store
        /\ DisablePlugin(Now, m, TRUE, TRUE).calls = << >>

\* Nothing of state s is changed in result r and no method of an instance or
\* of the storage was called.
NothingChanged(r, s) ==
    /\ r.calls = << >>
    /\ r.plugins = s.plugins
    /\ r.insts = s.insts
    /\ r.store = s.store

\* C9: EnablePlugin, DisablePlugin and UpdatePluginConfig with a name that is
\* not a key of m.plugins return the not-found error and change nothing.
C9_UnknownName ==
    \A n \in Names \ Registered :
        /\ \A initOk \in BOOLEAN, saveOk \in BOOLEAN, closeOk \in BOOLEAN :
              LET r == EnablePlugin(Now, n, initOk, saveOk, closeOk)
              IN  r.ret = "notfound" /\ NothingChanged(r, Now)
        /\ \A closeOk \in BOOLEAN, saveOk \in BOOLEAN :
              LET r == DisablePlugin(Now, n, closeOk, saveOk)
              IN  r.ret = "notfound" /\ NothingChanged(r, Now)
        /\ \A config \in NewConfigs, saveOk \in BOOLEAN :
              LET r == UpdatePluginConfig(Now, n, config, saveOk)
              IN  r.ret = "notfound" /\ NothingChanged(r, Now)

\* One name is registered and enabled, another is not registered, and the
\* three operations on the latter return the not-found error.
C9_Witness ==
    \E n \in Registered, m \in Names \ Registered :
        /\ plugins[n].Enabled
        /\ EnablePlugin(Now, m, TRUE, TRUE, TRUE).ret = "notfound"
        /\ DisablePlugin(Now, m, TRUE, TRUE).ret = "notfound"
        /\ UpdatePluginConfig(Now, m, "x", TRUE).ret = "notfound"

\* p is a string prefix of str: str is p followed by some rest.
IsPrefix(p, str) == \E k \in 0..Len(str) : p = [j \in 1..k |-> str[j]]

\* The record `name` is to receive `event` on `path` when its instance
\* answers `answer`.
Wanted(name, answer, event, path) ==
    /\ plugins[name].Enabled
    /\ event \in {answer.events[k] : k \in DOMAIN answer.events}
    /\ \E k \in DOMAIN answer.apis : IsPrefix(answer.apis[k], path)

\* C10: for every TriggerEvent and every registered record, one goroutine is
\* started for the record (with its instance) when the record is enabled, the
\* event is among its InterestedEvents() and one of its InterestedAPIs() is a
\* prefix of the path, and none otherwise; a record answering an empty list
\* of events or of APIs gets none.
C10_Dispatch ==
    \A interest \in [Registered -> Interests], event \in EventTypes, path \in ReqPaths,
       order \in RangeOrders(Registered) :
        LET started == TriggerEvent(Now, order, interest, event, path)
        IN  \A n \in Registered :
              LET mine == SelectSeq(started, LAMBDA g : g.name = n)
              IN  /\ Len(mine) = (IF Wanted(n, interest[n], event, path) THEN 1 ELSE 0)
                  /\ \A k \in DOMAIN mine : mine[k].inst = plugins[n].Plugin
                  /\ (interest[n].events = << >> \/ interest[n].apis = << >>)
                        => Len(mine) = 0

\* Two enabled records, a goroutine started for one of them and not yet
\* finished, and a TriggerEvent on a path under /u that starts a goroutine for
\* the record interested in /u and none for the record interested in /o only.
C10_Witness ==
    \E n, m \in Registered :
        /\ n # m
        /\ plugins[n].Enabled /\ plugins[m].Enabled
        /\ \E g \in BagToSet(goroutines) : g.name = n
        /\ \E order \in RangeOrders(Registered) :
              TriggerEvent(Now, order,
                           (n :> [events |-> <<EventAPIBefore>>, apis |-> <<StrUsers>>])
                             @@ (m :> [events |-> <<EventAPIBefore>>, apis |-> << >>]),
                           EventAPIBefore, StrUsers42)
                = <<Goroutine(plugins[n])>>

\* The records the TriggerEvent in progress has ranged over already.
Scanned == DOMAIN plugins \ {running.order[k] : k \in DOMAIN running.order}

\* No handler holds m.mutex: whatever goroutines are still running, a
\* TriggerEvent whose range is over returns, and with no call inside m.mutex
\* each administrative method and another TriggerEvent can enter.
HandlersHoldNoLock ==
    /\ (running.op = "TriggerEvent" /\ running.order = << >>) => ENABLED TriggerEventReturn
    /\ running = Idle =>
          /\ ENABLED EnablePluginAction
          /\ ENABLED DisablePluginAction
          /\ ENABLED UpdatePluginConfigAction
          /\ ENABLED ShutdownAction
          /\ ENABLED TriggerEventBegin

\* C11, as stated: no handler holds m.mutex, and a TriggerEvent starts a
\* handler only after its range over the whole of m.plugins is over.
C11_AsStated ==
    /\ HandlersHoldNoLock
    /\ (running.op = "TriggerEvent" /\ running.order # << >>) => running.started = 0

\* C11, amended: no handler holds m.mutex, and a TriggerEvent starts the handler
\* of a record inside its range over m.plugins, right after that record passed
\* the tests and with the shared lock still held: the handlers started so far
\* are for enabled records it has ranged over, one each at most, and others
\* may remain to be tested.
C11_DispatchInsideScan ==
    /\ HandlersHoldNoLock
    /\ running.op = "TriggerEvent" =>
          running.started <= Cardinality({n \in Scanned : plugins[n].Enabled})

\* A TriggerEvent has started the handler of the first record and has the second
\* still to test, the handler not yet finished.
C11_Witness ==
    /\ running.op = "TriggerEvent"
    /\ Len(running.order) = 1
    /\ running.started = 1
    /\ \E g \in BagToSet(goroutines) : g.name \in Scanned

\* A step in which the caller modifies what GetAllPlugins returned to it.
CallerModifies == CallerDelete \/ CallerAdd \/ CallerSetEnabled \/ CallerSetConfig

\* C12: the map GetAllPlugins returns is a defensive copy: no modification the
\* caller makes through it (adding or deleting entries, assigning Enabled or
\* Config of a record in it) changes what m.plugins holds.
C12_DefensiveCopy == [][CallerModifies => plugins' = plugins]_vars

\* What one LoadPlugins() over an existing directory can leave, from the
\* state now, whatever files it finds.
Discoveries == UNION {LoadPlugins(Now, "present", found) : found \in SUBSET Paths}

\* The loadPlugin calls of discovery r that got an instance from the module.
Loaded(r) == {l \in {r.loads[k] : k \in DOMAIN r.loads} : l.ret # "openerr"}

\* The calls of kind c that discovery r made for the module at `path`.
CallsFor(r, path, c) == SelectSeq(r.calls, LAMBDA x : x.c = c /\ x.path = path)

\* `text` is the JSON text of a config map.
IsJSON(text) == \E config \in Configs : text = Marshal(config)

\* The storage has a row for `path` whose Config is not empty and is no JSON.
BadRow(path) ==
    LET row == GetPlugin(store, path)
    IN  row.present /\ row.Config # "" /\ ~IsJSON(row.Config)

\* The storage has a row for `path` that parses and says enabled.
EnabledRow(path) ==
    LET row == GetPlugin(store, path)
    IN  row.present /\ row.Enabled /\ RowConfig(row).ok

\* C13: a module discovered while the storage has no row for its path is
\* registered disabled with its DefaultConfig(), which is also set on the
\* instance; Init is not called on it; SavePlugin(name, path, false,
\* DefaultConfig()) is called once, and the storage holds that row when the
\* write succeeds.
C13_NewModuleDefaults ==
    \A r \in Discoveries : \A l \in Loaded(r) :
        ~GetPlugin(store, l.path).present =>
            LET name == NameOf[l.path]
                saves == CallsFor(r, l.path, "save")
            IN  /\ l.ret = "ok"
                /\ name \in DOMAIN r.plugins
                /\ r.plugins[name].FilePath = l.path
                /\ ~r.plugins[name].Enabled
                /\ r.plugins[name].Config = DefaultConfigOf[l.path]
                /\ r.insts[r.plugins[name].Plugin].cfg = DefaultConfigOf[l.path]
                /\ r.insts[r.plugins[name].Plugin].life = "new"
                /\ CallsFor(r, l.path, "init") = << >>
                /\ Len(saves) = 1
                /\ saves[1].enabled = FALSE
                /\ saves[1].cfg = DefaultConfigOf[l.path]
                /\ (r.store.kind = "set" /\ saves[1].ok) =>
                      r.store.rows[l.path]
                        = Row(name, FALSE, Marshal(DefaultConfigOf[l.path]))

\* Both modules are found while the storage has no row for either, the first
\* one registered before (its write failed then); the write succeeds for one
\* and fails for the other.
C13_Witness ==
    /\ store.kind = "set"
    /\ \A p \in Paths : ~store.rows[p].present
    /\ "a" \in DOMAIN plugins
    /\ \E r \in Discoveries :
          /\ Loaded(r) = {[path |-> p, ret |-> "ok"] : p \in Paths}
          /\ r.store.rows["p1"].present
          /\ ~r.store.rows["p2"].present
          /\ DOMAIN r.plugins = Names

C15_InitFailureOnDiscovery ==
    \A found \in SUBSET Paths : \A r \in LoadPlugins(Now, "present", found) :
        \A l \in Loaded(r) :
            (EnabledRow(l.path) /\ CallsFor(r, l.path, "init") # << >>
               /\ ~CallsFor(r, l.path, "init")[1].ok) =>
                LET name == NameOf[l.path]
                    saves == CallsFor(r, l.path, "save")
                IN  /\ l.ret = "initerr"
                    /\ ~(name \in DOMAIN r.plugins /\ r.plugins[name].Enabled)
                    /\ Len(saves) = 1
                    /\ saves[1].ok => ~r.store.rows[l.path].Enabled
                    /\ Len(r.loads) = Cardinality(found)

\* C16: Shutdown calls Close once on the instance of every record, enabled
\* or not and whatever the Close calls return, and leaves m.plugins empty; a
\* Shutdown right after it calls nothing, leaves m.plugins empty and returns.
C16_ShutdownTwice ==
    \A order \in RangeOrders(Registered), closeOk \in [Registered -> BOOLEAN] :
        LET r == Shutdown(Now, order, closeOk)
        IN  /\ r.ret = "ok"
            /\ r.plugins = << >>
            /\ r.store = store
            /\ Len(r.calls) = Cardinality(Registered)
            /\ \A n \in Registered :
                  Len(SelectSeq(r.calls,
                                LAMBDA x : x.c = "close" /\ x.inst = plugins[n].Plugin)) = 1
            /\ RangeOrders(DOMAIN r.plugins) = {<< >>}
            /\ LET again == Shutdown(r, << >>, << >>)
               IN  /\ again.ret = "ok"
                   /\ again.calls = << >>
                   /\ again.plugins = << >>
                   /\ again.insts = r.insts

\* An enabled and a disabled record are registered; Shutdown closes both, the
\* first Close failing.
C16_Witness ==
    \E n, m \in Registered :
        /\ plugins[n].Enabled
        /\ ~plugins[m].Enabled
        /\ \E order \in RangeOrders(Registered) :
              LET r == Shutdown(Now, order, [k \in Registered |-> k # order[1]])
              IN  /\ Len(r.calls) = 2
                  /\ ~r.calls[1].ok
                  /\ r.calls[2].ok
                  /\ r.plugins = << >>

\* C17, as stated: the Enabled of a record and the Enabled the storage holds
\* for its path agree: a record is enabled only if Init succeeded on its
\* instance and the storage holds enabled, and disabled only if the storage
\* holds disabled (a path without a row counting as disabled).
C17_AsStated ==
    \A n \in Registered :
        LET row == GetPlugin(store, plugins[n].FilePath)
        IN  /\ plugins[n].Enabled =>
                  InstanceOf(n).life = "init_ok" /\ row.present /\ row.Enabled
            /\ ~plugins[n].Enabled => ~(row.present /\ row.Enabled)

\* The record under `name` in result r is enabled with Init succeeded on its
\* instance, and the storage of r holds enabled for its path.
EnabledWithInitAndRow(r, name) ==
    LET row == GetPlugin(r.store, r.plugins[name].FilePath)
    IN  /\ r.insts[r.plugins[name].Plugin].life = "init_ok"
        /\ row.present
        /\ row.Enabled

\* C17, amended: a record gets Enabled == true only with Init succeeded on
\* its instance and with the storage holding enabled for its path at that
\* time: EnablePlugin leaves a record enabled only after Init and the write
\* succeeded, LoadPlugins registers a record as enabled only after the
\* storage returned enabled and Init succeeded, and a record that is enabled
\* has an initialized instance.  (The two flags need not agree later on.)
C17_EnabledOnlyWithInitAndWrite ==
    /\ \A n \in Registered : plugins[n].Enabled => InstanceOf(n).life = "init_ok"
    /\ \A n \in Registered, initOk \in BOOLEAN, saveOk \in BOOLEAN, closeOk \in BOOLEAN :
          LET r == EnablePlugin(Now, n, initOk, saveOk, closeOk)
          IN  (~plugins[n].Enabled /\ r.plugins[n].Enabled) =>
                  initOk /\ saveOk /\ EnabledWithInitAndRow(r, n)
    /\ \A r \in Discoveries : \A l \in Loaded(r) :
          (l.ret = "ok" /\ r.plugins[NameOf[l.path]].Enabled) =>
              /\ EnabledRow(l.path)
              /\ EnabledWithInitAndRow(r, NameOf[l.path])

\* A record is disabled while the storage holds enabled for its path (the
\* write of DisablePlugin failed), and EnablePlugin enables it again.
C17_Witness ==
    \E n \in Registered :
        /\ ~plugins[n].Enabled
        /\ InstanceOf(n).life \in {"close_ok", "close_fail"}
        /\ GetPlugin(store, plugins[n].FilePath).present
        /\ GetPlugin(store, plugins[n].FilePath).Enabled
        /\ EnablePlugin(Now, n, TRUE, TRUE, TRUE).plugins[n].Enabled

\* The goroutines of bag gs that run on instance i.
HandlersOn(gs, i) == {g \in BagToSet(gs) : g.inst = i}

\* C19: DisablePlugin and Shutdown neither wait for nor cancel the handlers
\* TriggerEvent has started: they can run with handlers unfinished, they leave
\* every started goroutine in place, and a goroutine started on an instance
\* runs OnAPIEvent on it after its Close.
C19_HandlersOutliveClose ==
    /\ goroutines # EmptyBag =>
          /\ ENABLED DisablePluginAction
          /\ ENABLED ShutdownAction
          /\ ENABLED OnAPIEventAction
    /\ \A n \in Registered, closeOk \in BOOLEAN, saveOk \in BOOLEAN :
          LET r == DisablePlugin(Now, n, closeOk, saveOk)
          IN  /\ r.ret = "ok"
              /\ r.goroutines = goroutines
              /\ plugins[n].Enabled =>
                    r.insts[plugins[n].Plugin].life \in {"close_ok", "close_fail"}
    /\ \A order \in RangeOrders(Registered), closeOk \in [Registered -> BOOLEAN] :
          LET r == Shutdown(Now, order, closeOk)
          IN  /\ BagCardinality(r.goroutines) = BagCardinality(goroutines)
              /\ \A n \in Registered :
                    HandlersOn(goroutines, plugins[n].Plugin) # {} =>
                        \E g \in BagToSet(r.goroutines) :
                            /\ g.name = n
                            /\ r.insts[g.inst].life \in {"close_ok", "close_fail"}

\* TriggerEvent started a handler on the instance of an enabled record,
\* DisablePlugin then closed that instance and returned, and the handler has
\* not run yet: it runs on the closed instance.
C19_Witness ==
    \E n \in Registered :
        /\ ~plugins[n].Enabled
        /\ InstanceOf(n).life \in {"close_ok", "close_fail"}
        /\ HandlersOn(goroutines, plugins[n].Plugin) # {}
        /\ ENABLED OnAPIEventAction

\* C20: no live instance outside the registry: every instance that was
\* initialized with success and not closed since is the instance of one
\* record of m.plugins, which is enabled; no two records have the same
\* instance.
C20_NoLiveInstanceOutside ==
    /\ leaked = {}
    /\ \A i \in DOMAIN insts :
          insts[i].life = "init_ok" =>
              Cardinality({n \in Registered : plugins[n].Plugin = i /\ plugins[n].Enabled}) = 1
    /\ \A n, m \in Registered : n # m => plugins[n].Plugin # plugins[m].Plugin

\* Every field of record `rec` comes from the module at one path, its config
\* is the one resolved for it and set on its instance, and if it is enabled
\* its Init has succeeded.
FullyBuilt(rec) ==
    \E p \in Paths :
        /\ rec.Name = NameOf[p]
        /\ rec.Version = VersionOf[p]
        /\ rec.Description = DescriptionOf[p]
        /\ rec.FilePath = p
        /\ rec.Plugin \in DOMAIN insts
        /\ insts[rec.Plugin].path = p
        /\ insts[rec.Plugin].cfg = rec.Config
        /\ rec.Enabled => insts[rec.Plugin].life = "init_ok"

\* C18: whatever GetAllPlugins or GetPlugin reads from m.plugins beside a
\* LoadPlugins in progress is a fully built record: at every step of
\* LoadPlugins, also inside it, every record m.plugins holds has all its fields
\* from one module, its config resolved and, when enabled, Init succeeded;
\* and the readers get in only between two LoadPlugins.
C18_OnlyFullyBuiltRecords ==
    /\ \A n \in DOMAIN GetAllPlugins(Now) : FullyBuilt(plugins[n])
    /\ ENABLED GetAllPluginsAction => running.op # "LoadPlugins"
    /\ \A n \in DOMAIN held : held[n] = "registry" => FullyBuilt(plugins[n])

\* A LoadPlugins in progress has built and initialized the record of an
\* enabled module and has not yet put it in m.plugins, which holds the record
\* of another module; a caller holds the map of an earlier GetAllPlugins.
C18_Witness ==
    /\ running.op = "LoadPlugins"
    /\ running.pc = "inited"
    /\ running.info.Enabled
    /\ running.info.Name \notin DOMAIN plugins
    /\ plugins # << >>
    /\ \E n \in DOMAIN held : held[n] = "registry"

====
